---- MODULE Spec2Model ----
(***************************************************************************)
(* Model of github.com/mashiike/slackcnr: the Resolver (resolver.go) and   *)
(* the InMemoryStorage cache (storage.go).                                 *)
(*                                                                         *)
(* Each goroutine that calls Resolver.Lookup or Resolver.Refresh is a      *)
(* process p with a program counter pc[p]:                                 *)
(*   idle     no call in progress                                          *)
(*   prepare  Lookup, about to run prepare (NeedRefresh)                   *)
(*   read1    Lookup, about to run the primary GetByChannelName            *)
(*   read2    Lookup, about to run the read after the miss Refresh         *)
(*   lock     Refresh, about to run r.mu.Lock()                            *)
(*   loop     Refresh, at the head of a drain loop, holding r.mu           *)
(* One iteration of a drain loop (select, page request, SetChannels,       *)
(* cursor update) is one step: the request touches no shared state, so     *)
(* only the SetChannels of the iteration is visible to other goroutines.   *)
(*                                                                         *)
(* A goroutine that calls an operation of InMemoryStorage directly, one    *)
(* statement of the operation per step, stands at one of                   *)
(*   set-lock, set-id, set-name   SetChannels: Lock, write of channels,    *)
(*                                write of namesById                       *)
(*   get-rlock, get               GetByChannelName: RLock, the two reads   *)
(*   need-rlock, need             NeedRefresh: RLock, the read             *)
(*                                                                         *)
(* The specifications share the actions:                                   *)
(*   Spec          one goroutine calls the Resolver, the clock advances,   *)
(*                 the history of its calls is recorded                    *)
(*   ConcSpec      two goroutines call the Resolver concurrently           *)
(*   StoreSpec     the three operations of InMemoryStorage called directly,*)
(*                 with arbitrary batches                                  *)
(*   PlugSpec      Spec without the clock, with a Storage whose operations *)
(*                 can fail                                                *)
(*   PlugConcSpec  ConcSpec with a Storage whose operations can fail       *)
(*   DrainSpec     Spec without the clock; the page and the cursor of      *)
(*                 every response are recorded                             *)
(*   LookupsSpec   two goroutines call Lookup; the history of one of them  *)
(*                 is recorded                                             *)
(*   LiveSpec      two goroutines call Refresh, under fair scheduling      *)
(*   RWSpec        two goroutines call the operations of InMemoryStorage,  *)
(*                 one statement per step                                  *)
(***************************************************************************)
EXTENDS Naturals, Integers, Sequences, FiniteSets, TLC

\* ------------------------------------------------------------------ bounds
MaxTime == 3
MaxExpiry == 1
MaxRetryAfter == 1
MaxBatch == 1
MaxRequests == 3

Procs == {"g1", "g2"}
NoProc == "none"
Ids == {"C1", "C2"}
Names == {"a", "b"}
EmptyCursor == ""
NextCursors == {"", "n1"}

\* error values
Nil == "nil"
ErrNotFound == "ErrNotFound"
ErrCanceled == "context.Canceled"
ErrRemote == "ErrRemote"
ErrRateLimitFatal == "RateLimitedError(non-retryable)"
ErrRateLimited == "RateLimitedError(retryable)"
\* an error of the cacheStorage backend that is not ErrNotFound
ErrStorage == "ErrStorage"

Channel(id, name) == [ID |-> id, Name |-> name]
AllChannels == {Channel(i, n) : i \in Ids, n \in Names}

RECURSIVE SeqsUpTo(_, _)
SeqsUpTo(S, n) ==
  IF n = 0 THEN {<<>>}
  ELSE LET shorter == SeqsUpTo(S, n - 1)
       IN  shorter \cup {Append(s, x) : s \in {t \in shorter : Len(t) = n - 1}, x \in S}

\* the batches a caller of the store can pass to SetChannels
Batches == SeqsUpTo(AllChannels, MaxBatch)

\* the channels of the workspace the listing endpoints report, and their pages
RemoteChannels == {Channel("C1", "a"), Channel("C2", "b")}
Pages == SeqsUpTo(RemoteChannels, MaxBatch)

\* What a listing endpoint can answer to one page request.
Responses ==
  [kind : {"ok"}, channels : Pages, nextCursor : NextCursors, retryAfter : {0}]
  \cup [kind : {"ratelimited"}, channels : {<<>>}, nextCursor : {""}, retryAfter : 0..MaxRetryAfter]
  \cup [kind : {"ratelimited-fatal", "error"}, channels : {<<>>}, nextCursor : {""}, retryAfter : {0}]

ResponseErr(resp) ==
  CASE resp.kind = "ok" -> Nil
    [] resp.kind = "ratelimited" -> ErrRateLimited
    [] resp.kind = "ratelimited-fatal" -> ErrRateLimitFatal
    [] OTHER -> ErrRemote

VARIABLES
  \* resolverOptions
  searchpublicChannels, refreshOnCacheMiss,
  \* InMemoryStorage
  channels, namesById, lastSetTime, expredDuration,
  \* Resolver.mu: the process holding it, or NoProc
  mu,
  \* wall clock (time.Now); 0 is the zero time.Time
  now,
  \* per goroutine
  pc, channelName, ctxDone, site, endpoint, cursor, sleepTime,
  \* the goroutines whose calls are recorded in the history variables; the other
  \* goroutines are concurrent callers whose results are not inspected
  observed,
  \* the goroutines, among those, whose page requests are recorded together with
  \* the answer of the remote (the page and the cursor it returned)
  detailed,
  \* history of the call in progress (or of the last call, when idle), kept for
  \* the goroutines in observed:
  \*   retval      what the last call returned
  \*   staleSeen   what NeedRefresh answered in prepare
  \*   refreshLog  the Refresh invocations of the call, with their results
  \*   reads       the results of the GetByChannelName calls of the call
  \*   nreq        the number of page requests issued by the call
  \*   lastReq     the last page request of the last Refresh (0 or 1 record)
  retval, staleSeen, refreshLog, reads, nreq, lastReq,
  \* history of the store:
  \*   merged      for each name ever merged, the identifier of the last channel
  \*               merged under that name
  \*   setAt       the time at which the last SetChannels completed, 0 if none did
  merged, setAt,
  \* InMemoryStorage.mu (sync.RWMutex), for the goroutines that run the
  \* operations of the store statement by statement:
  \*   smu        the goroutine holding the write lock (or NoProc) and the
  \*              goroutines holding the read lock
  \*   pending    per goroutine, the channels its SetChannels has yet to merge
  \*   committed  history: the content of the store when the last SetChannels
  \*              returned
  smu, pending, committed

optVars == <<searchpublicChannels, refreshOnCacheMiss, observed, detailed>>
storeVars == <<channels, namesById, lastSetTime, expredDuration>>
procVars == <<pc, channelName, ctxDone, site, endpoint, cursor, sleepTime>>
histVars == <<retval, staleSeen, refreshLog, reads, nreq, lastReq, merged, setAt>>
rwVars == <<smu, pending, committed>>
vars == <<optVars, storeVars, mu, now, procVars, histVars, rwVars>>

\* ------------------------------------------------------- InMemoryStorage
Put(m, k, v) == [x \in (DOMAIN m) \cup {k} |-> IF x = k THEN v ELSE m[x]]

RECURSIVE MergeChannels(_, _)
MergeChannels(m, batch) ==
  IF batch = <<>> THEN m
  ELSE MergeChannels(Put(m, Head(batch).ID, Head(batch)), Tail(batch))

RECURSIVE MergeNames(_, _)
MergeNames(m, batch) ==
  IF batch = <<>> THEN m
  ELSE MergeNames(Put(m, Head(batch).Name, Head(batch).ID), Tail(batch))

\* GetByChannelName: (channel, err); the channel is a sequence of 0 or 1 record
GetByChannelName(chs, names, name) ==
  IF name \notin DOMAIN names THEN [channel |-> <<>>, err |-> ErrNotFound]
  ELSE IF names[name] \notin DOMAIN chs THEN [channel |-> <<>>, err |-> ErrNotFound]
  ELSE [channel |-> <<chs[names[name]]>>, err |-> Nil]

\* variant: the "never expires" case of a zero expiry is not special-cased
NeedRefresh_NoZeroCheck(last, expiry, t) ==
  IF last = 0 THEN TRUE
  ELSE t - last > expiry

\* variant: the zero lastSetTime of a store that was never set is not special-cased
NeedRefresh_NoZeroTime(last, expiry, t) ==
  IF expiry = 0 THEN FALSE
  ELSE t - last > expiry

NeedRefresh(last, expiry, t) ==
  IF last = 0 THEN TRUE
  ELSE IF expiry = 0 THEN FALSE
  ELSE t - last > expiry

\* ------------------------------------------------------------------ Init
NoResult == [channel |-> <<>>, err |-> Nil]

\* the goroutine whose calls the single-caller specification follows
Observed == {"g1"}
Rec(f, p, v) == IF p \in observed THEN [f EXCEPT ![p] = v] ELSE f

InitState ==
  /\ searchpublicChannels \in BOOLEAN
  /\ refreshOnCacheMiss \in BOOLEAN
  /\ expredDuration \in 0..MaxExpiry
  /\ channels = <<>>
  /\ namesById = <<>>
  /\ lastSetTime = 0
  /\ mu = NoProc
  /\ now = 1
  /\ pc = [p \in Procs |-> "idle"]
  /\ channelName = [p \in Procs |-> "a"]
  /\ ctxDone = [p \in Procs |-> FALSE]
  /\ site = [p \in Procs |-> "direct"]
  /\ endpoint = [p \in Procs |-> "user"]
  /\ cursor = [p \in Procs |-> EmptyCursor]
  /\ sleepTime = [p \in Procs |-> 0]
  /\ retval = [p \in Procs |-> NoResult]
  /\ staleSeen = [p \in Procs |-> "unknown"]
  /\ refreshLog = [p \in Procs |-> <<>>]
  /\ reads = [p \in Procs |-> <<>>]
  /\ nreq = [p \in Procs |-> 0]
  /\ lastReq = [p \in Procs |-> <<>>]
  /\ merged = <<>>
  /\ setAt = 0
  /\ smu = [writer |-> NoProc, readers |-> {}]
  /\ pending = [p \in Procs |-> <<>>]
  /\ committed = [channels |-> <<>>, namesById |-> <<>>, lastSetTime |-> 0]

Init == InitState /\ observed = Observed /\ detailed = {}

\* ------------------------------------------------------------- the clock
Tick ==
  /\ now < MaxTime
  /\ now' = now + 1
  /\ UNCHANGED <<optVars, rwVars, storeVars, mu, procVars, histVars>>

\* ------------------------------------------------- callers and contexts
\* A goroutine calls r.Lookup(ctx, n); ctx may already be cancelled.
StartLookup(p) ==
  /\ pc[p] = "idle"
  /\ \E n \in Names, c \in BOOLEAN :
       /\ channelName' = [channelName EXCEPT ![p] = n]
       /\ ctxDone' = [ctxDone EXCEPT ![p] = c]
  /\ pc' = [pc EXCEPT ![p] = "prepare"]
  /\ retval' = Rec(retval, p, NoResult)
  /\ staleSeen' = Rec(staleSeen, p, "unknown")
  /\ refreshLog' = Rec(refreshLog, p, <<>>)
  /\ reads' = Rec(reads, p, <<>>)
  /\ nreq' = Rec(nreq, p, 0)
  /\ lastReq' = Rec(lastReq, p, <<>>)
  /\ UNCHANGED <<optVars, rwVars, storeVars, mu, now, site, endpoint, cursor, sleepTime, merged, setAt>>

\* A goroutine calls r.Refresh(ctx) directly.
StartRefresh(p) ==
  /\ pc[p] = "idle"
  /\ \E c \in BOOLEAN : ctxDone' = [ctxDone EXCEPT ![p] = c]
  /\ pc' = [pc EXCEPT ![p] = "lock"]
  /\ retval' = Rec(retval, p, NoResult)
  /\ staleSeen' = Rec(staleSeen, p, "unknown")
  /\ refreshLog' = Rec(refreshLog, p, <<[site |-> "direct", err |-> "running"]>>)
  /\ reads' = Rec(reads, p, <<>>)
  /\ nreq' = Rec(nreq, p, 0)
  /\ lastReq' = Rec(lastReq, p, <<>>)
  /\ UNCHANGED <<optVars, rwVars, storeVars, mu, now, channelName, site, endpoint, cursor, sleepTime,
                 merged, setAt>>

\* The caller cancels the context of its call in progress (or its deadline passes).
Cancel(p) ==
  /\ pc[p] # "idle"
  /\ ~ctxDone[p]
  /\ ctxDone' = [ctxDone EXCEPT ![p] = TRUE]
  /\ UNCHANGED <<optVars, rwVars, storeVars, mu, now, pc, channelName, site, endpoint,
                 cursor, sleepTime, histVars>>

\* The call of p returns result to its caller; its arguments go out of scope.
Return(p, result) ==
  /\ pc' = [pc EXCEPT ![p] = "idle"]
  /\ retval' = Rec(retval, p, result)
  /\ ctxDone' = [ctxDone EXCEPT ![p] = FALSE]
  /\ channelName' = [channelName EXCEPT ![p] = IF p \in observed THEN @ ELSE "a"]
  /\ site' = [site EXCEPT ![p] = "direct"]

\* ---------------------------------------------------------------- Lookup
\* variant: prepare calls Refresh whatever NeedRefresh answers
Prepare_AlwaysRefresh(p) ==
  /\ pc[p] = "prepare"
  /\ staleSeen' = Rec(staleSeen, p,
                      IF NeedRefresh(lastSetTime, expredDuration, now) THEN "stale" ELSE "fresh")
  /\ site' = [site EXCEPT ![p] = "prepare"]
  /\ refreshLog' = Rec(refreshLog, p, Append(refreshLog[p], [site |-> "prepare", err |-> "running"]))
  /\ pc' = [pc EXCEPT ![p] = "lock"]
  /\ UNCHANGED <<optVars, rwVars, storeVars, mu, now, channelName, ctxDone, endpoint,
                 cursor, sleepTime, retval, reads, nreq, lastReq, merged, setAt>>

\* Lookup line 91 with prepare: NeedRefresh, and the call of Refresh if stale.
Prepare(p) ==
  /\ pc[p] = "prepare"
  /\ IF ~NeedRefresh(lastSetTime, expredDuration, now)
     THEN /\ staleSeen' = Rec(staleSeen, p, "fresh")
          /\ pc' = [pc EXCEPT ![p] = "read1"]
          /\ UNCHANGED <<site, refreshLog>>
     ELSE /\ staleSeen' = Rec(staleSeen, p, "stale")
          /\ site' = [site EXCEPT ![p] = "prepare"]
          /\ refreshLog' = Rec(refreshLog, p, Append(refreshLog[p], [site |-> "prepare", err |-> "running"]))
          /\ pc' = [pc EXCEPT ![p] = "lock"]
  /\ UNCHANGED <<optVars, rwVars, storeVars, mu, now, channelName, ctxDone, endpoint,
                 cursor, sleepTime, retval, reads, nreq, lastReq, merged, setAt>>

\* variant: a miss triggers Refresh whatever refreshOnCacheMiss says
Read1_AlwaysRefresh(p) ==
  /\ pc[p] = "read1"
  /\ LET r == GetByChannelName(channels, namesById, channelName[p]) IN
       /\ reads' = Rec(reads, p, Append(reads[p], r))
       /\ IF r.err = Nil \/ r.err # ErrNotFound
          THEN /\ Return(p, r)
               /\ UNCHANGED refreshLog
          ELSE /\ pc' = [pc EXCEPT ![p] = "lock"]
               /\ site' = [site EXCEPT ![p] = "miss"]
               /\ refreshLog' = Rec(refreshLog, p, Append(refreshLog[p], [site |-> "miss", err |-> "running"]))
               /\ UNCHANGED <<retval, ctxDone, channelName>>
  /\ UNCHANGED <<optVars, rwVars, storeVars, mu, now, endpoint, cursor, sleepTime,
                 staleSeen, nreq, lastReq, merged, setAt>>

\* Lookup lines 94-104, 107: the primary read and the miss handling.
Read1(p) ==
  /\ pc[p] = "read1"
  /\ LET r == GetByChannelName(channels, namesById, channelName[p]) IN
       /\ reads' = Rec(reads, p, Append(reads[p], r))
       /\ IF r.err = Nil \/ ~refreshOnCacheMiss \/ r.err # ErrNotFound
          THEN /\ Return(p, r)
               /\ UNCHANGED refreshLog
          ELSE /\ pc' = [pc EXCEPT ![p] = "lock"]
               /\ site' = [site EXCEPT ![p] = "miss"]
               /\ refreshLog' = Rec(refreshLog, p, Append(refreshLog[p], [site |-> "miss", err |-> "running"]))
               /\ UNCHANGED <<retval, ctxDone, channelName>>
  /\ UNCHANGED <<optVars, rwVars, storeVars, mu, now, endpoint, cursor, sleepTime,
                 staleSeen, nreq, lastReq, merged, setAt>>

\* Lookup lines 105, 107: the read after the miss Refresh.
Read2(p) ==
  /\ pc[p] = "read2"
  /\ LET r == GetByChannelName(channels, namesById, channelName[p]) IN
       /\ reads' = Rec(reads, p, Append(reads[p], r))
       /\ Return(p, r)
  /\ UNCHANGED <<optVars, rwVars, storeVars, mu, now, endpoint, cursor, sleepTime,
                 staleSeen, refreshLog, nreq, lastReq, merged, setAt>>

\* --------------------------------------------------------------- Refresh
SetErr(log, err) == IF log = <<>> THEN log ELSE [log EXCEPT ![Len(log)].err = err]

ReqEntry(p, resp) ==
  [endpoint |-> endpoint[p], cursor |-> cursor[p], time |-> now, kind |-> resp.kind,
   next |-> IF p \in detailed THEN resp.nextCursor ELSE EmptyCursor,
   channels |-> IF p \in detailed THEN resp.channels ELSE <<>>]

\* variant: Lookup goes on to its read even when the Refresh of prepare failed
RefreshReturn_IgnoreErr(p, err) ==
  /\ mu' = NoProc
  /\ refreshLog' = Rec(refreshLog, p, SetErr(refreshLog[p], err))
  /\ endpoint' = [endpoint EXCEPT ![p] = "user"]
  /\ cursor' = [cursor EXCEPT ![p] = EmptyCursor]
  /\ sleepTime' = [sleepTime EXCEPT ![p] = 0]
  /\ IF site[p] = "direct" \/ (err # Nil /\ site[p] # "prepare")
     THEN Return(p, [channel |-> <<>>, err |-> err])
     ELSE /\ pc' = [pc EXCEPT ![p] = IF site[p] = "prepare" THEN "read1" ELSE "read2"]
          /\ UNCHANGED <<retval, ctxDone, channelName, site>>

\* variant: r.mu.Unlock() runs only at the return nil of the end of Refresh
RefreshReturn_UnlockOnSuccess(p, err) ==
  /\ mu' = IF err = Nil THEN NoProc ELSE mu
  /\ refreshLog' = Rec(refreshLog, p, SetErr(refreshLog[p], err))
  /\ endpoint' = [endpoint EXCEPT ![p] = "user"]
  /\ cursor' = [cursor EXCEPT ![p] = EmptyCursor]
  /\ sleepTime' = [sleepTime EXCEPT ![p] = 0]
  /\ IF site[p] = "direct" \/ err # Nil
     THEN Return(p, [channel |-> <<>>, err |-> err])
     ELSE /\ pc' = [pc EXCEPT ![p] = IF site[p] = "prepare" THEN "read1" ELSE "read2"]
          /\ UNCHANGED <<retval, ctxDone, channelName, site>>

\* return err from Refresh: the deferred r.mu.Unlock(), then the caller continues
\* (Lookup lines 91-93 after prepare, lines 102-104 after a miss). The locals of
\* Refresh go out of scope.
RefreshReturn(p, err) ==
  /\ mu' = NoProc
  /\ refreshLog' = Rec(refreshLog, p, SetErr(refreshLog[p], err))
  /\ endpoint' = [endpoint EXCEPT ![p] = "user"]
  /\ cursor' = [cursor EXCEPT ![p] = EmptyCursor]
  /\ sleepTime' = [sleepTime EXCEPT ![p] = 0]
  /\ IF site[p] = "direct" \/ err # Nil
     THEN Return(p, [channel |-> <<>>, err |-> err])
     ELSE /\ pc' = [pc EXCEPT ![p] = IF site[p] = "prepare" THEN "read1" ELSE "read2"]
          /\ UNCHANGED <<retval, ctxDone, channelName, site>>

\* variant: Refresh does not take r.mu
Lock_NoMutex(p) ==
  /\ pc[p] = "lock"
  /\ mu' = p
  /\ pc' = [pc EXCEPT ![p] = "loop"]
  /\ endpoint' = [endpoint EXCEPT ![p] = "user"]
  /\ cursor' = [cursor EXCEPT ![p] = EmptyCursor]
  /\ sleepTime' = [sleepTime EXCEPT ![p] = 0]
  /\ lastReq' = Rec(lastReq, p, <<>>)
  /\ UNCHANGED <<optVars, rwVars, storeVars, now, channelName, ctxDone, site, retval,
                 staleSeen, refreshLog, reads, nreq, merged, setAt>>

\* Refresh lines 119-122: r.mu.Lock(), var cursor, var sleepTime.
Lock(p) ==
  /\ pc[p] = "lock"
  /\ mu = NoProc
  /\ mu' = p
  /\ pc' = [pc EXCEPT ![p] = "loop"]
  /\ endpoint' = [endpoint EXCEPT ![p] = "user"]
  /\ cursor' = [cursor EXCEPT ![p] = EmptyCursor]
  /\ sleepTime' = [sleepTime EXCEPT ![p] = 0]
  /\ lastReq' = Rec(lastReq, p, <<>>)
  /\ UNCHANGED <<optVars, rwVars, storeVars, now, channelName, ctxDone, site, retval,
                 staleSeen, refreshLog, reads, nreq, merged, setAt>>

\* The channel of time.After(d) can be received from in the select that creates it
\* only if d has elapsed by then; no tick of the clock separates the two, so the
\* timer of a zero sleepTime may have fired and that of a positive one has not.
AfterReady(d) == d <= 0

\* The select at the head of both loops (lines 124-129, 160-165) has a default
\* case, so it never blocks. It takes the ctx.Done() case only if the context is
\* cancelled; with several cases ready Go picks one of them at random.
SelectReturns(p) == ctxDone[p]
SelectProceeds(p) == ~ctxDone[p] \/ AfterReady(sleepTime[p])

\* select, case <-ctx.Done(): return ctx.Err()
LoopCancelled(p) ==
  /\ pc[p] = "loop"
  /\ SelectReturns(p)
  /\ RefreshReturn(p, ErrCanceled)
  /\ UNCHANGED <<optVars, rwVars, storeVars, now, staleSeen, reads, nreq, lastReq, merged, setAt>>

\* variant: each batch replaces the content of the store
SetChannels_Replace(batch) ==
  /\ channels' = MergeChannels(<<>>, batch)
  /\ namesById' = MergeNames(<<>>, batch)
  /\ lastSetTime' = now
  /\ UNCHANGED expredDuration

\* InMemoryStorage.SetChannels (storage.go lines 38-49), under s.mu.Lock()
SetChannels(batch) ==
  /\ channels' = MergeChannels(channels, batch)
  /\ namesById' = MergeNames(namesById, batch)
  /\ lastSetTime' = now
  /\ UNCHANGED expredDuration

\* History: batch has been merged into the store at the current time.
NamesOf(batch) == {batch[i].Name : i \in 1..Len(batch)}
LastNamed(batch, n) ==
  batch[CHOOSE i \in 1..Len(batch) :
          /\ batch[i].Name = n
          /\ \A j \in 1..Len(batch) : batch[j].Name = n => j <= i]
NoteMerge(batch) ==
  /\ merged' = [n \in (DOMAIN merged) \cup NamesOf(batch) |->
                  IF n \in NamesOf(batch) THEN LastNamed(batch, n).ID ELSE merged[n]]
  /\ setAt' = now

\* variant: cursor = nextCursor is missing, every request carries the first cursor
Advance_KeepCursor(p, nextCursor) ==
  IF nextCursor # EmptyCursor
  THEN UNCHANGED <<cursor, mu, pc, endpoint, sleepTime, retval, refreshLog, ctxDone,
                   channelName, site>>
  ELSE IF endpoint[p] = "user" /\ searchpublicChannels
  THEN /\ endpoint' = [endpoint EXCEPT ![p] = "public"]
       /\ cursor' = [cursor EXCEPT ![p] = EmptyCursor]
       /\ sleepTime' = [sleepTime EXCEPT ![p] = 0]
       /\ UNCHANGED <<mu, pc, retval, refreshLog, ctxDone, channelName, site>>
  ELSE RefreshReturn(p, Nil)

\* variant: cursor = "" is missing before the second loop
Advance_NoCursorReset(p, nextCursor) ==
  IF nextCursor # EmptyCursor
  THEN /\ cursor' = [cursor EXCEPT ![p] = nextCursor]
       /\ UNCHANGED <<mu, pc, endpoint, sleepTime, retval, refreshLog, ctxDone,
                      channelName, site>>
  ELSE IF endpoint[p] = "user" /\ searchpublicChannels
  THEN /\ endpoint' = [endpoint EXCEPT ![p] = "public"]
       /\ sleepTime' = [sleepTime EXCEPT ![p] = 0]
       /\ UNCHANGED <<cursor, mu, pc, retval, refreshLog, ctxDone, channelName, site>>
  ELSE RefreshReturn(p, Nil)

\* The cursor handling after a merged page (lines 149-158, 185-190).
Advance(p, nextCursor) ==
  IF nextCursor # EmptyCursor
  THEN /\ cursor' = [cursor EXCEPT ![p] = nextCursor]
       /\ UNCHANGED <<mu, pc, endpoint, sleepTime, retval, refreshLog, ctxDone,
                      channelName, site>>
  ELSE IF endpoint[p] = "user" /\ searchpublicChannels
  THEN /\ endpoint' = [endpoint EXCEPT ![p] = "public"]
       /\ cursor' = [cursor EXCEPT ![p] = EmptyCursor]
       /\ sleepTime' = [sleepTime EXCEPT ![p] = 0]
       /\ UNCHANGED <<mu, pc, retval, refreshLog, ctxDone, channelName, site>>
  ELSE RefreshReturn(p, Nil)

\* select falls through, the page request is issued and answers with a page,
\* which is merged into the store.
RequestOk(p) ==
  /\ pc[p] = "loop"
  /\ SelectProceeds(p)
  /\ nreq[p] < MaxRequests
  /\ \E resp \in {r \in Responses : r.kind = "ok"} :
       /\ lastReq' = Rec(lastReq, p, <<ReqEntry(p, resp)>>)
       /\ SetChannels(resp.channels)
       /\ NoteMerge(resp.channels)
       /\ Advance(p, resp.nextCursor)
  /\ nreq' = Rec(nreq, p, nreq[p] + 1)
  /\ UNCHANGED <<optVars, rwVars, now, staleSeen, reads>>

\* variant: a retryable rate limit aborts Refresh like any other error
RequestRateLimited_Abort(p) ==
  /\ pc[p] = "loop"
  /\ SelectProceeds(p)
  /\ nreq[p] < MaxRequests
  /\ \E resp \in {r \in Responses : r.kind = "ratelimited"} :
       /\ lastReq' = Rec(lastReq, p, <<ReqEntry(p, resp)>>)
       /\ RefreshReturn(p, ResponseErr(resp))
  /\ nreq' = Rec(nreq, p, nreq[p] + 1)
  /\ UNCHANGED <<optVars, rwVars, storeVars, now, staleSeen, reads, merged, setAt>>

\* ... answers with a retryable *slack.RateLimitedError: sleepTime = rle.RetryAfter; continue
RequestRateLimited(p) ==
  /\ pc[p] = "loop"
  /\ SelectProceeds(p)
  /\ nreq[p] < MaxRequests
  /\ \E resp \in {r \in Responses : r.kind = "ratelimited"} :
       /\ lastReq' = Rec(lastReq, p, <<ReqEntry(p, resp)>>)
       /\ sleepTime' = [sleepTime EXCEPT ![p] = resp.retryAfter]
  /\ nreq' = Rec(nreq, p, nreq[p] + 1)
  /\ UNCHANGED <<optVars, rwVars, storeVars, mu, now, pc, channelName, ctxDone, site, endpoint,
                 cursor, retval, staleSeen, refreshLog, reads, merged, setAt>>

\* ... answers with a non-retryable rate limit or any other error: return err
RequestFailed(p) ==
  /\ pc[p] = "loop"
  /\ SelectProceeds(p)
  /\ nreq[p] < MaxRequests
  /\ \E resp \in {r \in Responses : r.kind \in {"ratelimited-fatal", "error"}} :
       /\ lastReq' = Rec(lastReq, p, <<ReqEntry(p, resp)>>)
       /\ RefreshReturn(p, ResponseErr(resp))
  /\ nreq' = Rec(nreq, p, nreq[p] + 1)
  /\ UNCHANGED <<optVars, rwVars, storeVars, now, staleSeen, reads, merged, setAt>>

\* ------------------------------------------- a cacheStorage that can fail
\* The Storage interface lets GetByChannelName and SetChannels return any error;
\* InMemoryStorage never does, a backend set with WithCacheStorage can.

\* variant: with refreshOnCacheMiss every failed read triggers Refresh
PrimaryRead_NoErrCheck(p, r) ==
  /\ reads' = Rec(reads, p, Append(reads[p], r))
  /\ IF r.err = Nil \/ ~refreshOnCacheMiss
     THEN /\ Return(p, r)
          /\ UNCHANGED refreshLog
     ELSE /\ pc' = [pc EXCEPT ![p] = "lock"]
          /\ site' = [site EXCEPT ![p] = "miss"]
          /\ refreshLog' = Rec(refreshLog, p, Append(refreshLog[p], [site |-> "miss", err |-> "running"]))
          /\ UNCHANGED <<retval, ctxDone, channelName>>

\* Lookup lines 95-104, 107, for the result r of the primary read.
PrimaryRead(p, r) ==
  /\ reads' = Rec(reads, p, Append(reads[p], r))
  /\ IF r.err = Nil \/ ~refreshOnCacheMiss \/ r.err # ErrNotFound
     THEN /\ Return(p, r)
          /\ UNCHANGED refreshLog
     ELSE /\ pc' = [pc EXCEPT ![p] = "lock"]
          /\ site' = [site EXCEPT ![p] = "miss"]
          /\ refreshLog' = Rec(refreshLog, p, Append(refreshLog[p], [site |-> "miss", err |-> "running"]))
          /\ UNCHANGED <<retval, ctxDone, channelName>>

StorageFailure == [channel |-> <<>>, err |-> ErrStorage]

\* Lookup line 94: the primary read fails in the backend.
Read1Failed(p) ==
  /\ pc[p] = "read1"
  /\ PrimaryRead(p, StorageFailure)
  /\ UNCHANGED <<optVars, rwVars, storeVars, mu, now, endpoint, cursor, sleepTime,
                 staleSeen, nreq, lastReq, merged, setAt>>

\* Lookup lines 105, 107: the read after the miss Refresh fails in the backend.
Read2Failed(p) ==
  /\ pc[p] = "read2"
  /\ reads' = Rec(reads, p, Append(reads[p], StorageFailure))
  /\ Return(p, StorageFailure)
  /\ UNCHANGED <<optVars, rwVars, storeVars, mu, now, endpoint, cursor, sleepTime,
                 staleSeen, refreshLog, nreq, lastReq, merged, setAt>>

\* Refresh lines 146-148, 182-184: the page request succeeds and SetChannels
\* returns an error; the backend has merged nothing.
SetChannelsFailed(p) ==
  /\ pc[p] = "loop"
  /\ SelectProceeds(p)
  /\ nreq[p] < MaxRequests
  /\ \E resp \in {r \in Responses : r.kind = "ok"} :
       /\ lastReq' = Rec(lastReq, p, <<ReqEntry(p, resp)>>)
       /\ RefreshReturn(p, ErrStorage)
  /\ nreq' = Rec(nreq, p, nreq[p] + 1)
  /\ UNCHANGED <<optVars, rwVars, storeVars, now, staleSeen, reads, merged, setAt>>

FailStep(p) == Read1Failed(p) \/ Read2Failed(p) \/ SetChannelsFailed(p)

\* ------------------------------------------------------------------ Spec
Step(p) ==
  \/ StartLookup(p)
  \/ StartRefresh(p)
  \/ Cancel(p)
  \/ Prepare(p)
  \/ Read1(p)
  \/ Read2(p)
  \/ Lock(p)
  \/ LoopCancelled(p)
  \/ RequestOk(p)
  \/ RequestRateLimited(p)
  \/ RequestFailed(p)

\* One goroutine calls the Resolver.
Next == Tick \/ \E p \in Observed : Step(p)

Spec == Init /\ [][Next]_vars

\* Two goroutines call the Resolver concurrently, on a store that never expires
\* and at one instant of the clock; no history is kept.
ConcNext == \E p \in Procs : Step(p)

ConcInit == InitState /\ expredDuration = 0 /\ observed = {} /\ detailed = {}

ConcSpec == ConcInit /\ [][ConcNext]_vars

\* One goroutine calls a Resolver whose cacheStorage can fail, at one instant
\* of the clock.
PlugNext == \E p \in Observed : Step(p) \/ FailStep(p)

PlugSpec == Init /\ [][PlugNext]_vars

\* One goroutine calls the Resolver at one instant of the clock; its page
\* requests are recorded with their answers.
DrainNext == \E p \in Observed : Step(p)

DrainInit == InitState /\ observed = Observed /\ detailed = Observed

DrainSpec == DrainInit /\ [][DrainNext]_vars

\* Two goroutines call it concurrently; no history is kept.
PlugConcNext == \E p \in Procs : Step(p) \/ FailStep(p)

PlugConcSpec == ConcInit /\ [][PlugConcNext]_vars

\* The steps of a call of Refresh, and of a goroutine that only calls Lookup.
RefreshSteps(p) ==
  \/ Lock(p)
  \/ LoopCancelled(p)
  \/ RequestOk(p)
  \/ RequestRateLimited(p)
  \/ RequestFailed(p)

LookupCaller(p) ==
  \/ StartLookup(p)
  \/ Cancel(p)
  \/ Prepare(p)
  \/ Read1(p)
  \/ Read2(p)
  \/ RefreshSteps(p)

\* Two goroutines call Lookup concurrently, on a store that never expires and
\* at one instant of the clock; the history of "g1" is recorded.
LookupsNext == \E p \in Procs : LookupCaller(p)

LookupsInit == InitState /\ expredDuration = 0 /\ observed = Observed /\ detailed = {}

LookupsSpec == LookupsInit /\ [][LookupsNext]_vars

\* Two goroutines call Refresh concurrently, under fair scheduling: a goroutine
\* that can take a step of Refresh eventually takes one; the select of a loop
\* head, which picks at random among its ready cases, eventually picks
\* <-ctx.Done() if that stays ready; and a goroutine waiting in r.mu.Lock()
\* eventually gets the mutex if it is released again and again (sync.Mutex hands
\* the lock to a waiter that has waited long).
LiveNext ==
  \E p \in Procs :
    \/ StartRefresh(p)
    \/ Cancel(p)
    \/ RefreshSteps(p)

Fair(p) ==
  /\ WF_vars(RefreshSteps(p))
  /\ WF_vars(LoopCancelled(p))
  /\ SF_vars(Lock(p))

LiveSpec == ConcInit /\ [][LiveNext]_vars /\ \A p \in Procs : Fair(p)

\* ------------------------------------------------ the store on its own
\* A caller that holds the *InMemoryStorage uses its three operations directly;
\* what GetByChannelName and NeedRefresh answer is recorded for "g1".
StoreSetChannels ==
  /\ \E batch \in Batches :
       /\ SetChannels(batch)
       /\ NoteMerge(batch)
  /\ UNCHANGED <<optVars, rwVars, mu, now, procVars, retval, staleSeen, refreshLog, reads, nreq, lastReq>>

StoreGetByChannelName ==
  /\ \E n \in Names :
       /\ channelName' = [channelName EXCEPT !["g1"] = n]
       /\ retval' = [retval EXCEPT !["g1"] = GetByChannelName(channels, namesById, n)]
  /\ UNCHANGED <<optVars, rwVars, storeVars, mu, now, pc, ctxDone, site, endpoint, cursor, sleepTime,
                 staleSeen, refreshLog, reads, nreq, lastReq, merged, setAt>>

StoreNeedRefresh ==
  /\ staleSeen' = [staleSeen EXCEPT !["g1"] =
                     IF NeedRefresh(lastSetTime, expredDuration, now) THEN "stale" ELSE "fresh"]
  /\ UNCHANGED <<optVars, rwVars, storeVars, mu, now, procVars, retval, refreshLog, reads, nreq,
                 lastReq, merged, setAt>>

StoreInit == Init /\ ~searchpublicChannels /\ ~refreshOnCacheMiss

StoreNext == Tick \/ StoreSetChannels \/ StoreGetByChannelName \/ StoreNeedRefresh

StoreSpec == StoreInit /\ [][StoreNext]_vars

\* --------------------------------- the store, statement by statement
\* Goroutines call the operations of one InMemoryStorage concurrently. Each
\* operation takes s.mu first; SetChannels then writes the two maps channel by
\* channel. A goroutine in an operation is at
\*   set-lock   SetChannels, about to run s.mu.Lock()
\*   set-id     SetChannels, about to write s.channels for the next channel, or
\*              to leave the loop
\*   set-name   SetChannels, about to write s.namesById for that channel
\*   get-rlock  GetByChannelName, about to run s.mu.RLock()
\*   get        GetByChannelName, holding the read lock
\*   need-rlock NeedRefresh, about to run s.mu.RLock()
\*   need       NeedRefresh, holding the read lock
RWFrame == UNCHANGED <<optVars, mu, now, ctxDone, site, endpoint, cursor, sleepTime,
                       refreshLog, reads, nreq, lastReq, merged, setAt>>

RWSetCall(p) ==
  /\ pc[p] = "idle"
  /\ \E batch \in Batches : pending' = [pending EXCEPT ![p] = batch]
  /\ pc' = [pc EXCEPT ![p] = "set-lock"]
  /\ UNCHANGED <<storeVars, smu, committed, channelName, retval, staleSeen>>
  /\ RWFrame

\* variant: SetChannels does not take s.mu
RWSetLock_NoLock(p) ==
  /\ pc[p] = "set-lock"
  /\ smu' = [smu EXCEPT !.writer = p]
  /\ pc' = [pc EXCEPT ![p] = "set-id"]
  /\ UNCHANGED <<storeVars, pending, committed, channelName, retval, staleSeen>>
  /\ RWFrame

\* storage.go line 39: s.mu.Lock()
RWSetLock(p) ==
  /\ pc[p] = "set-lock"
  /\ smu.writer = NoProc /\ smu.readers = {}
  /\ smu' = [smu EXCEPT !.writer = p]
  /\ pc' = [pc EXCEPT ![p] = "set-id"]
  /\ UNCHANGED <<storeVars, pending, committed, channelName, retval, staleSeen>>
  /\ RWFrame

\* line 43: s.channels[channel.ID] = channel
RWSetId(p) ==
  /\ pc[p] = "set-id"
  /\ pending[p] # <<>>
  /\ channels' = Put(channels, Head(pending[p]).ID, Head(pending[p]))
  /\ pc' = [pc EXCEPT ![p] = "set-name"]
  /\ UNCHANGED <<namesById, lastSetTime, expredDuration, smu, pending, committed,
                 channelName, retval, staleSeen>>
  /\ RWFrame

\* line 44: s.namesById[channel.Name] = channel.ID
RWSetName(p) ==
  /\ pc[p] = "set-name"
  /\ namesById' = Put(namesById, Head(pending[p]).Name, Head(pending[p]).ID)
  /\ pending' = [pending EXCEPT ![p] = Tail(pending[p])]
  /\ pc' = [pc EXCEPT ![p] = "set-id"]
  /\ UNCHANGED <<channels, lastSetTime, expredDuration, smu, committed,
                 channelName, retval, staleSeen>>
  /\ RWFrame

\* lines 47-48: s.lastSetTime = time.Now(); return nil, with the deferred Unlock
RWSetReturn(p) ==
  /\ pc[p] = "set-id"
  /\ pending[p] = <<>>
  /\ lastSetTime' = now
  /\ smu' = [smu EXCEPT !.writer = IF @ = p THEN NoProc ELSE @]
  /\ committed' = [channels |-> channels, namesById |-> namesById, lastSetTime |-> now]
  /\ pc' = [pc EXCEPT ![p] = "idle"]
  /\ UNCHANGED <<channels, namesById, expredDuration, pending, channelName, retval, staleSeen>>
  /\ RWFrame

RWGetCall(p) ==
  /\ pc[p] = "idle"
  /\ \E n \in Names : channelName' = [channelName EXCEPT ![p] = n]
  /\ pc' = [pc EXCEPT ![p] = "get-rlock"]
  /\ UNCHANGED <<storeVars, rwVars, retval, staleSeen>>
  /\ RWFrame

RWNeedCall(p) ==
  /\ pc[p] = "idle"
  /\ pc' = [pc EXCEPT ![p] = "need-rlock"]
  /\ UNCHANGED <<storeVars, rwVars, channelName, retval, staleSeen>>
  /\ RWFrame

\* lines 52, 69: s.mu.RLock()
RWRLock(p) ==
  /\ pc[p] \in {"get-rlock", "need-rlock"}
  /\ smu.writer = NoProc
  /\ smu' = [smu EXCEPT !.readers = @ \cup {p}]
  /\ pc' = [pc EXCEPT ![p] = IF pc[p] = "get-rlock" THEN "get" ELSE "need"]
  /\ UNCHANGED <<storeVars, pending, committed, channelName, retval, staleSeen>>
  /\ RWFrame

\* lines 55-65: the two map reads and the return, with the deferred RUnlock
RWGetReturn(p) ==
  /\ pc[p] = "get"
  /\ retval' = Rec(retval, p, GetByChannelName(channels, namesById, channelName[p]))
  /\ channelName' = [channelName EXCEPT ![p] = IF p \in observed THEN @ ELSE "a"]
  /\ smu' = [smu EXCEPT !.readers = @ \ {p}]
  /\ pc' = [pc EXCEPT ![p] = "idle"]
  /\ UNCHANGED <<storeVars, pending, committed, staleSeen>>
  /\ RWFrame

\* lines 72-78, with the deferred RUnlock
RWNeedReturn(p) ==
  /\ pc[p] = "need"
  /\ staleSeen' = Rec(staleSeen, p,
                      IF NeedRefresh(lastSetTime, expredDuration, now) THEN "stale" ELSE "fresh")
  /\ smu' = [smu EXCEPT !.readers = @ \ {p}]
  /\ pc' = [pc EXCEPT ![p] = "idle"]
  /\ UNCHANGED <<storeVars, pending, committed, channelName, retval>>
  /\ RWFrame

RWStep(p) ==
  \/ RWSetCall(p)
  \/ RWSetLock(p)
  \/ RWSetId(p)
  \/ RWSetName(p)
  \/ RWSetReturn(p)
  \/ RWGetCall(p)
  \/ RWNeedCall(p)
  \/ RWRLock(p)
  \/ RWGetReturn(p)
  \/ RWNeedReturn(p)

\* Two goroutines use the store concurrently, at one instant of the clock.
RWNext == \E p \in Procs : RWStep(p)

RWInit == StoreInit /\ expredDuration = 0

RWSpec == RWInit /\ [][RWNext]_vars

\* ---------------------------------------------------------------- typing
TypeOK ==
  /\ mu \in Procs \cup {NoProc}
  /\ now \in 1..MaxTime
  /\ lastSetTime \in 0..MaxTime
  /\ DOMAIN channels \subseteq Ids
  /\ DOMAIN namesById \subseteq Names
  /\ smu.writer \in Procs \cup {NoProc}
  /\ smu.readers \subseteq Procs
  /\ \A p \in Procs :
       /\ pc[p] \in {"idle", "prepare", "read1", "read2", "lock", "loop",
                    "set-lock", "set-id", "set-name", "get-rlock", "get", "need-rlock", "need"}
       /\ nreq[p] \in 0..MaxRequests
       /\ Len(lastReq[p]) <= 1
       /\ Len(refreshLog[p]) <= 2
       /\ Len(reads[p]) <= 2

\* ================================================================ claims
\* a Lookup of p has returned
LookupDone(p) == pc[p] = "idle" /\ staleSeen[p] # "unknown"
\* the call of p is a Lookup (not a direct call of Refresh)
IsLookup(p) == refreshLog[p] = <<>> \/ refreshLog[p][1].site # "direct"
\* p issues a page request in this step
Requests(p) == nreq'[p] = nreq[p] + 1

\* The case of C1: prepare found the store fresh and the primary read missed.
MissCase(p) ==
  /\ LookupDone(p)
  /\ staleSeen[p] = "fresh"
  /\ reads[p] # <<>>
  /\ reads[p][1].err = ErrNotFound

\* C1 as stated: in the miss case, with refresh-on-cache-miss disabled Lookup
\* returns not-found and issues no page request; with it enabled Lookup runs
\* exactly one Refresh, then exactly one more GetByChannelName, and returns the
\* result of that second read.
C1_Original ==
  \A p \in Observed :
    MissCase(p) =>
      IF ~refreshOnCacheMiss
      THEN retval[p].err = ErrNotFound /\ nreq[p] = 0 /\ refreshLog[p] = <<>>
      ELSE Len(refreshLog[p]) = 1 /\ Len(reads[p]) = 2 /\ retval[p] = reads[p][2]

\* C1 amended: with refresh-on-cache-miss enabled Lookup runs exactly one
\* Refresh; if that Refresh succeeds, Lookup makes exactly one more read and
\* returns its result, and if it fails Lookup returns the Refresh's error
\* without a second read. (Disabled: not-found, no page request, no Refresh.)
C1_MissHandling ==
  \A p \in Observed :
    MissCase(p) =>
      IF ~refreshOnCacheMiss
      THEN retval[p].err = ErrNotFound /\ nreq[p] = 0 /\ refreshLog[p] = <<>>
      ELSE /\ Len(refreshLog[p]) = 1
           /\ refreshLog[p][1].site = "miss"
           /\ IF refreshLog[p][1].err = Nil
              THEN Len(reads[p]) = 2 /\ retval[p] = reads[p][2]
              ELSE /\ Len(reads[p]) = 1
                   /\ retval[p] = [channel |-> <<>>, err |-> refreshLog[p][1].err]

\* C1 witness: a Lookup that missed, refreshed once, missed again and returned
\* that second not-found.
C1_Witness ==
  \E p \in Observed :
    /\ MissCase(p)
    /\ refreshOnCacheMiss
    /\ Len(reads[p]) = 2
    /\ reads[p][2].err = ErrNotFound
    /\ nreq[p] > 0

\* C2: in a Lookup NeedRefresh is consulted before anything else; if it answered
\* true, the Refresh of prepare has returned nil before the first read, and a
\* failed Refresh ends the Lookup with that error and without a read; if it
\* answered false, no Refresh precedes the primary read.
C2_PrepareFirst ==
  \A p \in Observed :
    IsLookup(p) =>
      /\ (reads[p] # <<>> \/ refreshLog[p] # <<>> \/ nreq[p] > 0) => staleSeen[p] # "unknown"
      /\ staleSeen[p] = "stale" =>
           /\ refreshLog[p] # <<>>
           /\ refreshLog[p][1].site = "prepare"
           /\ (reads[p] # <<>> \/ pc[p] \in {"read1", "read2"}) => refreshLog[p][1].err = Nil
           /\ refreshLog[p][1].err \notin {Nil, "running"} =>
                /\ pc[p] = "idle"
                /\ reads[p] = <<>>
                /\ retval[p] = [channel |-> <<>>, err |-> refreshLog[p][1].err]
      /\ staleSeen[p] = "fresh" =>
           /\ pc[p] = "read1" => refreshLog[p] = <<>> /\ nreq[p] = 0
           /\ refreshLog[p] # <<>> => refreshLog[p][1].site = "miss" /\ reads[p] # <<>>

\* C2 witness: a Lookup that found the store stale, refreshed, and then read.
C2_Witness ==
  \E p \in Observed :
    /\ LookupDone(p)
    /\ staleSeen[p] = "stale"
    /\ refreshLog[p][1].err = Nil
    /\ reads[p] # <<>>

\* C3 as stated: the retry of a page request that failed with a retryable rate
\* limit carrying the duration d is not issued before d has elapsed since the
\* failed request.
C3_WaitsBeforeRetry ==
  [][\A p \in Observed :
       (Requests(p) /\ lastReq[p] # <<>> /\ lastReq[p][1].kind = "ratelimited")
         => now >= lastReq[p][1].time + sleepTime[p]]_vars

\* the response kinds after which Refresh goes on
Retried == {"ratelimited"}
KindErr(kind) ==
  CASE kind = "ratelimited" -> ErrRateLimited
    [] kind = "ratelimited-fatal" -> ErrRateLimitFatal
    [] kind = "error" -> ErrRemote
    [] OTHER -> Nil

\* C4: a failed page request is retried iff its error is a retryable rate limit.
\* After such a failure Refresh stays in its loop with the same endpoint and
\* cursor, has not touched the store and has not returned, the next request of
\* that Refresh carries the same cursor, and no call ever returns the rate-limit
\* error; after any other failure Refresh returns that error at once, having
\* touched nothing, and a request never follows such a failure.
C4_RetryOnlyRateLimit ==
  [][\A p \in Observed :
       Requests(p) =>
         LET new == lastReq'[p][1] IN
         /\ new.kind \in Retried =>
              /\ pc'[p] = "loop"
              /\ cursor'[p] = new.cursor /\ endpoint'[p] = new.endpoint
              /\ refreshLog'[p] = refreshLog[p]
              /\ mu' = mu
              /\ UNCHANGED storeVars
         /\ (new.kind # "ok" /\ new.kind \notin Retried) =>
              /\ pc'[p] = "idle"
              /\ retval'[p] = [channel |-> <<>>, err |-> KindErr(new.kind)]
              /\ refreshLog'[p][Len(refreshLog'[p])].err = KindErr(new.kind)
              /\ mu' = NoProc
              /\ UNCHANGED storeVars
         /\ lastReq[p] # <<>> =>
              /\ lastReq[p][1].kind \in Retried \cup {"ok"}
              /\ lastReq[p][1].kind \in Retried =>
                   new.cursor = lastReq[p][1].cursor /\ new.endpoint = lastReq[p][1].endpoint
         /\ retval'[p].err # ErrRateLimited]_vars

\* C4 witness: a direct Refresh whose second or later request still carries the
\* empty cursor of the first endpoint and succeeded: the requests before it
\* were rate limited, and it is their retry.
C4_Witness ==
  \E p \in Observed :
    /\ refreshLog[p] # <<>> /\ refreshLog[p][1].site = "direct"
    /\ nreq[p] >= 2
    /\ lastReq[p] # <<>>
    /\ lastReq[p][1].endpoint = "user"
    /\ lastReq[p][1].cursor = EmptyCursor
    /\ lastReq[p][1].kind = "ok"

\* C5 as stated: once the context of the call is cancelled, Refresh issues no
\* further page request.
C5_NoRequestAfterCancel ==
  [][\A p \in Observed : Requests(p) => ~ctxDone[p]]_vars

\* C6: at most one goroutine is inside the body of Refresh, and it holds r.mu.
C6_OneRefreshAtATime ==
  /\ Cardinality({p \in Procs : pc[p] = "loop"}) <= 1
  /\ \A p \in Procs : pc[p] = "loop" => mu = p

\* C6 witness: one Refresh is past its first page while another waits for r.mu.
C6_Witness ==
  \E p, q \in Procs :
    /\ pc[p] = "loop" /\ cursor[p] # EmptyCursor
    /\ pc[q] = "lock"

\* C7: NeedRefresh answers true if no SetChannels has completed; otherwise false
\* for a zero expiry, and for a non-zero expiry false at the time of the last
\* SetChannels and true once more than the expiry has elapsed since it.
\* GetByChannelName and NeedRefresh leave the store as it is.
C7_Answer ==
  LET ans == NeedRefresh(lastSetTime, expredDuration, now) IN
  /\ setAt = 0 => ans
  /\ (setAt # 0 /\ expredDuration = 0) => ~ans
  /\ (setAt # 0 /\ expredDuration # 0 /\ now = setAt) => ~ans
  /\ (setAt # 0 /\ expredDuration # 0 /\ now - setAt > expredDuration) => ans
C7_NeedRefresh ==
  /\ []C7_Answer
  /\ [][(StoreGetByChannelName \/ StoreNeedRefresh) => UNCHANGED storeVars]_vars

\* C7 witness: NeedRefresh answered true on a store whose last SetChannels is
\* older than its non-zero expiry.
C7_Witness ==
  /\ setAt # 0 /\ expredDuration # 0
  /\ now - setAt > expredDuration
  /\ staleSeen["g1"] = "stale"

\* C8 as stated: GetByChannelName(n) returns not-found exactly when no merged
\* channel is named n, and otherwise a record whose name is n and whose
\* identifier is that of the channel most recently merged under the name n.
C8_ExactNameMatch ==
  \A n \in Names :
    LET r == GetByChannelName(channels, namesById, n) IN
    /\ r.err = ErrNotFound <=> n \notin DOMAIN merged
    /\ r.err = Nil => r.channel[1].Name = n /\ r.channel[1].ID = merged[n]

\* C9: a name that has been merged is never not-found afterwards, and no step
\* removes an entry from either index of the store.
C9_Resolvable ==
  \A n \in DOMAIN merged : GetByChannelName(channels, namesById, n).err = Nil
C9_Additive ==
  /\ []C9_Resolvable
  /\ [][/\ DOMAIN channels \subseteq DOMAIN channels'
        /\ DOMAIN namesById \subseteq DOMAIN namesById']_vars

\* C9 witness: both names have been merged under different identifiers (with
\* batches of one channel: by two batches with nothing in common) and the name
\* read last resolves.
C9_Witness ==
  /\ DOMAIN merged = Names
  /\ merged["a"] # merged["b"]
  /\ setAt > 1
  /\ retval["g1"].err = Nil /\ retval["g1"].channel # <<>>

\* C10 as stated, for a store that never expires (so that it is stale only while
\* no SetChannels has completed): a Lookup on a store no Refresh has populated
\* returns not-found.
C10_Original ==
  \A p \in Observed :
    (LookupDone(p) /\ staleSeen[p] = "stale" /\ expredDuration = 0)
      => retval[p].err = ErrNotFound

\* C10 amended: while no SetChannels has completed the store is stale and
\* GetByChannelName misses every name; a Lookup that finds the store stale
\* returns not-found only if its Refresh succeeded and its last read missed, the
\* error of the Refresh if that failed, and else what its last read found.
C10_UnpopulatedLookup ==
  /\ setAt = 0 =>
       /\ NeedRefresh(lastSetTime, expredDuration, now)
       /\ \A n \in Names : GetByChannelName(channels, namesById, n).err = ErrNotFound
  /\ \A p \in Observed :
       (LookupDone(p) /\ staleSeen[p] = "stale") =>
         IF refreshLog[p][1].err # Nil
         THEN /\ retval[p] = [channel |-> <<>>, err |-> refreshLog[p][1].err]
              /\ retval[p].err # ErrNotFound
              /\ reads[p] = <<>>
         ELSE /\ reads[p] # <<>>
              /\ retval[p].err \in {Nil, ErrNotFound} => retval[p] = reads[p][Len(reads[p])]
              /\ retval[p].err \notin {Nil, ErrNotFound} =>
                   retval[p].err = refreshLog[p][Len(refreshLog[p])].err

\* C10 witness: the first Lookup on a never-expiring store returned a channel.
C10_Witness ==
  \E p \in Observed :
    /\ LookupDone(p) /\ staleSeen[p] = "stale" /\ expredDuration = 0
    /\ retval[p].err = Nil /\ retval[p].channel # <<>>

\* the primary read of p fails in this step with an error other than not-found
PrimaryReadFails(p) ==
  /\ pc[p] = "read1"
  /\ Len(reads'[p]) = Len(reads[p]) + 1
  /\ reads'[p][Len(reads'[p])].err \notin {Nil, ErrNotFound}

\* C11: when the primary read fails with an error other than not-found, the
\* same step returns that error from Lookup: no Refresh is started, the lock is
\* not taken and no page request is issued, with refreshOnCacheMiss on or off;
\* a Lookup that has returned after such a read made no other read and ran no
\* Refresh but that of prepare.
C11_Returned ==
  \A p \in Observed :
    (LookupDone(p) /\ reads[p] # <<>> /\ reads[p][1].err \notin {Nil, ErrNotFound}) =>
      /\ Len(reads[p]) = 1
      /\ retval[p] = reads[p][1]
      /\ \A i \in 1..Len(refreshLog[p]) : refreshLog[p][i].site = "prepare"
      /\ staleSeen[p] = "fresh" => nreq[p] = 0
C11_StorageErrorReturned ==
  /\ []C11_Returned
  /\ [][\A p \in Observed :
          PrimaryReadFails(p) =>
            /\ pc'[p] = "idle"
            /\ retval'[p] = reads'[p][Len(reads'[p])]
            /\ refreshLog'[p] = refreshLog[p]
            /\ nreq'[p] = nreq[p]
            /\ mu' = mu
            /\ UNCHANGED storeVars]_vars

\* C11 witness: with refreshOnCacheMiss enabled, a Lookup on a fresh store has
\* returned the storage error of its primary read.
C11_Witness ==
  \E p \in Observed :
    /\ LookupDone(p)
    /\ refreshOnCacheMiss
    /\ staleSeen[p] = "fresh"
    /\ reads[p] = <<StorageFailure>>
    /\ retval[p].err = ErrStorage

\* the request that follows the request old in the same drain loop
Follows(old, new) ==
  /\ new.endpoint = old.endpoint
  /\ old.kind = "ok" => old.next # EmptyCursor /\ new.cursor = old.next
  /\ old.kind # "ok" => new.cursor = old.cursor

\* the page request new of p has been answered with a page, which SetChannels
\* has merged in the same step
PageMerged(new) ==
  /\ channels' = MergeChannels(channels, new.channels)
  /\ namesById' = MergeNames(namesById, new.channels)
  /\ lastSetTime' = now

\* C12: the first request of a Refresh goes to the caller-visible endpoint with
\* an empty cursor; a later request to that endpoint follows a request to it and
\* carries the cursor returned by that request if it succeeded (which was not
\* empty); a page is merged by SetChannels in the step that receives it, before
\* any other request, and nothing else changes the store; after a page with a
\* non-empty cursor the drain goes on with that cursor, and after a page with an
\* empty cursor no request goes to that endpoint again in this Refresh.
C12_Pagination ==
  [][/\ \A p \in Observed :
          Requests(p) =>
            LET new == lastReq'[p][1] IN
            /\ lastReq[p] = <<>> => new.endpoint = "user" /\ new.cursor = EmptyCursor
            /\ (lastReq[p] # <<>> /\ new.endpoint = "user") => Follows(lastReq[p][1], new)
            /\ new.kind = "ok" => PageMerged(new)
            /\ new.kind # "ok" => UNCHANGED storeVars
            /\ (new.kind = "ok" /\ new.endpoint = "user") =>
                 IF new.next # EmptyCursor
                 THEN pc'[p] = "loop" /\ endpoint'[p] = "user" /\ cursor'[p] = new.next
                 ELSE pc'[p] # "loop" \/ endpoint'[p] # "user"
     /\ (\A p \in Observed : ~Requests(p)) => UNCHANGED storeVars]_vars

\* C12 witness: a direct Refresh of the caller-visible endpoint alone returned
\* nil after a last page requested with a non-empty cursor.
C12_Witness ==
  \E p \in Observed :
    /\ pc[p] = "idle" /\ ~searchpublicChannels
    /\ refreshLog[p] = <<[site |-> "direct", err |-> Nil]>>
    /\ nreq[p] >= 2
    /\ lastReq[p] # <<>>
    /\ lastReq[p][1].cursor # EmptyCursor
    /\ lastReq[p][1].kind = "ok" /\ lastReq[p][1].next = EmptyCursor
    /\ lastReq[p][1].channels # <<>>

\* a Refresh of p has returned nil
RefreshSucceeded(p) ==
  /\ refreshLog[p] # <<>>
  /\ refreshLog[p][Len(refreshLog[p])].err = Nil

\* C13: a request goes to the directory-wide endpoint only if
\* searchpublicChannels is set, and either it is the first one to that endpoint,
\* follows a page of the caller-visible endpoint that returned an empty cursor,
\* and carries an empty cursor, or it follows a request to the directory-wide
\* endpoint under the rules of the first drain; after the last page of the
\* caller-visible endpoint Refresh goes on to the directory-wide endpoint if
\* searchpublicChannels is set and returns nil if not; a Refresh returns nil
\* only after the last page of the last endpoint it has to drain.
C13_AfterLast ==
  \A p \in Observed :
    (RefreshSucceeded(p) /\ pc[p] \notin {"lock", "loop"}) =>
      /\ lastReq[p] # <<>>
      /\ lastReq[p][1].kind = "ok" /\ lastReq[p][1].next = EmptyCursor
      /\ lastReq[p][1].endpoint = IF searchpublicChannels THEN "public" ELSE "user"
C13_PublicEndpoint ==
  /\ []C13_AfterLast
  /\ [][\A p \in Observed :
          Requests(p) =>
            LET new == lastReq'[p][1] IN
            /\ new.endpoint = "public" =>
                 /\ searchpublicChannels
                 /\ lastReq[p] # <<>>
                 /\ IF lastReq[p][1].endpoint = "user"
                    THEN /\ lastReq[p][1].kind = "ok"
                         /\ lastReq[p][1].next = EmptyCursor
                         /\ new.cursor = EmptyCursor
                    ELSE Follows(lastReq[p][1], new)
                 /\ new.kind = "ok" => PageMerged(new)
                 /\ (new.kind = "ok" /\ new.next # EmptyCursor) =>
                      pc'[p] = "loop" /\ endpoint'[p] = "public" /\ cursor'[p] = new.next
                 /\ (new.kind = "ok" /\ new.next = EmptyCursor) => pc'[p] # "loop"
            /\ (new.endpoint = "user" /\ new.kind = "ok" /\ new.next = EmptyCursor) =>
                 IF searchpublicChannels
                 THEN pc'[p] = "loop" /\ endpoint'[p] = "public" /\ cursor'[p] = EmptyCursor
                 ELSE pc'[p] # "loop" /\ refreshLog'[p][Len(refreshLog'[p])].err = Nil]_vars

\* C13 witness: the third request of a Refresh is the first one to the
\* directory-wide endpoint, with an empty cursor, and returns a page.
C13_Witness ==
  \E p \in Observed :
    /\ searchpublicChannels
    /\ nreq[p] = 3
    /\ lastReq[p] # <<>>
    /\ lastReq[p][1].endpoint = "public"
    /\ lastReq[p][1].cursor = EmptyCursor
    /\ lastReq[p][1].kind = "ok" /\ lastReq[p][1].channels # <<>>

\* C14: while a goroutine holds the read lock of the store (the states
\* GetByChannelName and NeedRefresh read), no SetChannels is between its Lock and
\* its return, the two maps and the timestamp are exactly as the last completed
\* SetChannels left them (every batch merged entirely or not at all), and every
\* name of the name index maps to an identifier of the identifier index; at
\* most one SetChannels is merging at any time.
C14_BatchAtomic ==
  /\ smu.readers # {} =>
       /\ smu.writer = NoProc
       /\ \A p \in Procs : pc[p] \notin {"set-id", "set-name"}
       /\ channels = committed.channels
       /\ namesById = committed.namesById
       /\ lastSetTime = committed.lastSetTime
       /\ \A n \in DOMAIN namesById : namesById[n] \in DOMAIN channels
  /\ Cardinality({p \in Procs : pc[p] \in {"set-id", "set-name"}}) <= 1

\* C14 witness: a SetChannels has written s.channels but not yet s.namesById for
\* a channel of its batch, on a store an earlier batch was merged into, while
\* another goroutine has called GetByChannelName and waits for the read lock.
C14_Witness ==
  \E p, q \in Procs :
    /\ pc[p] = "set-name"
    /\ pc[q] = "get-rlock"
    /\ committed.channels # <<>>
    /\ channels # committed.channels

\* the Refresh that the Lookup of q started in prepare, on a stale store, holds
\* the lock and has merged a page that is not the last one
PrepareRefreshRunning(q) ==
  /\ pc[q] = "loop"
  /\ site[q] = "prepare"
  /\ cursor[q] # EmptyCursor

\* the Lookup of p makes a read, or returns, in this step
ReadsOrReturns(p) ==
  /\ pc[p] \in {"read1", "read2"}
  /\ pc'[p] # pc[p]

\* C15 as stated: while the Refresh started by the prepare step of a Lookup is
\* running, and goes on running, no other Lookup makes its primary read or
\* returns.
C15_LookupsBlock ==
  [][\A p, q \in Procs :
       (p # q /\ PrepareRefreshRunning(q) /\ pc'[q] = "loop") => ~ReadsOrReturns(p)]_vars

\* C16 as stated: after a Lookup whose prepare step found the store stale and
\* whose Refresh was aborted by an error or by cancellation, the store has not
\* been marked fresh: NeedRefresh still answers true, so that the next Lookup
\* runs Refresh again.
C16_AbortedRefreshLeavesStale ==
  \A p \in Observed :
    (/\ LookupDone(p)
     /\ staleSeen[p] = "stale"
     /\ refreshLog[p][1].err \notin {Nil, "running"})
      => NeedRefresh(lastSetTime, expredDuration, now)

\* what the store holds for the name the Lookup of p asks for
Held(p) == GetByChannelName(channels, namesById, channelName[p])

\* C17: a Lookup for which NeedRefresh answered false and whose primary read
\* found the name calls no Refresh, never holds r.mu and issues no page request;
\* its prepare step goes on to the primary read and its primary read returns
\* the record the store holds at that moment, each in one step that neither
\* waits for r.mu nor changes it, whoever holds it.
C17_Unlocked ==
  \A p \in Observed :
    (staleSeen[p] = "fresh" /\ (reads[p] = <<>> \/ reads[p][1].err = Nil)) =>
      /\ refreshLog[p] = <<>>
      /\ nreq[p] = 0
      /\ mu # p
      /\ pc[p] \in {"read1", "idle"}
      /\ reads[p] # <<>> => pc[p] = "idle" /\ Len(reads[p]) = 1 /\ retval[p] = reads[p][1]
C17_NoLockWhenFresh ==
  /\ []C17_Unlocked
  /\ [][\A p \in Observed :
          /\ (/\ pc[p] = "prepare"
              /\ ~NeedRefresh(lastSetTime, expredDuration, now)
              /\ pc'[p] # "prepare") => pc'[p] = "read1" /\ mu' = mu
          /\ (/\ pc[p] = "read1"
              /\ Held(p).err = Nil
              /\ pc'[p] # "read1") =>
                /\ pc'[p] = "idle"
                /\ retval'[p] = Held(p)
                /\ mu' = mu
                /\ UNCHANGED storeVars]_vars

\* C17 witness: a Lookup that found the store fresh has returned the record of
\* its name, the other name of the workspace is not in the store yet, and the
\* other goroutine holds r.mu in a Refresh that has merged a page and has more
\* pages to request.
C17_Witness ==
  \E p \in Observed, q \in Procs :
    /\ p # q
    /\ LookupDone(p) /\ staleSeen[p] = "fresh"
    /\ retval[p].err = Nil /\ retval[p].channel # <<>>
    /\ DOMAIN namesById # Names
    /\ mu = q /\ pc[q] = "loop" /\ cursor[q] # EmptyCursor

\* p is inside a call of Refresh
InRefresh(p) == pc[p] \in {"lock", "loop"}

\* the remote answers a page request of p so that its drain loop goes on: a
\* retryable rate limit, or a page with a non-empty cursor
Continues(p) ==
  /\ pc[p] = "loop" /\ pc'[p] = "loop"
  /\ endpoint'[p] = endpoint[p]
  /\ ctxDone' = ctxDone
  /\ <<sleepTime[p], cursor[p], storeVars>>' # <<sleepTime[p], cursor[p], storeVars>>

\* from some point on the remote sends no retryable rate limit and every page
\* it sends ends the pagination of its endpoint
RemoteSettles == <>[][\A p \in Procs : ~Continues(p)]_vars

\* C18 as stated: under fair scheduling a call of Refresh whose context is
\* cancelled eventually returns, and if the remote settles every call of
\* Refresh eventually returns.
C18_RefreshReturns ==
  \A p \in Procs :
    /\ (InRefresh(p) /\ ctxDone[p]) ~> ~InRefresh(p)
    /\ RemoteSettles => (InRefresh(p) ~> ~InRefresh(p))

\* the ways a call of Refresh ends
RefreshExits == {Nil, ErrCanceled, ErrRemote, ErrRateLimitFatal, ErrStorage}

\* C19: r.mu is held exactly while a goroutine is inside the body of Refresh:
\* whatever way a Refresh ended (nil, remote error, SetChannels error,
\* cancellation) the lock is free once it has returned, and a goroutine that
\* calls Refresh, also for the second time in one Lookup, does not hold the
\* lock it is about to take, so that Lock can proceed.
C19_LockReleased ==
  \A p \in Observed :
    /\ mu = p <=> pc[p] = "loop"
    /\ pc[p] # "loop" => mu = NoProc
    /\ pc[p] = "lock" => ENABLED Lock(p)
    /\ \A i \in 1..Len(refreshLog[p]) :
         IF i = Len(refreshLog[p]) /\ InRefresh(p)
         THEN refreshLog[p][i].err = "running"
         ELSE refreshLog[p][i].err \in RefreshExits

\* C19 witness: a Lookup whose prepare Refresh returned nil has taken the lock
\* again for its miss Refresh, which ended with an error of SetChannels, and
\* the lock is free.
C19_Witness ==
  \E p \in Observed :
    /\ LookupDone(p)
    /\ refreshLog[p] = <<[site |-> "prepare", err |-> Nil], [site |-> "miss", err |-> ErrStorage]>>
    /\ retval[p].err = ErrStorage
    /\ mu = NoProc

\* the prepare step of q's Lookup has just run a Refresh that returned nil
PrepareRefreshSucceeded(q) == pc[q] = "read1" /\ site[q] = "prepare"
\* p is in the Refresh of its prepare step, waiting for r.mu or holding it
InPrepareRefresh(p) == pc[p] \in {"lock", "loop"} /\ site[p] = "prepare"

\* C20 as stated: when the Refresh that a Lookup had to wait for in its prepare
\* step has returned nil and the store is no longer stale, the waiting Lookup
\* issues no page request of its own.
C20_NoRedundantRefresh ==
  [][\A p \in Observed, q \in Procs :
       ( /\ p # q
         /\ PrepareRefreshSucceeded(q)
         /\ InPrepareRefresh(p)
         /\ ~NeedRefresh(lastSetTime, expredDuration, now) ) => ~Requests(p)]_vars

====
